---- MODULE Spec2Model ----
(***************************************************************************)
(* Model of src/transformers/utils/chat_template_utils.py: the conversion  *)
(* of a callable's type hints and Google-format docstring into a JSON      *)
(* schema (get_json_schema and its helpers).                               *)
(*                                                                         *)
(* Python values are represented as follows.                               *)
(*   - a str is a sequence of one-character strings;                       *)
(*   - a dict is a function whose domain is the set of its keys;           *)
(*   - the value of a "type" key, which the code makes either a str or a   *)
(*     list of str, is Str(name) or List(names);                           *)
(*   - a type hint is a record [origin, args, name]: origin and args are   *)
(*     what typing.get_origin and typing.get_args return, name identifies  *)
(*     a hint that has no origin;                                          *)
(*   - a raised exception is a dict with the key "error".                  *)
(***************************************************************************)
EXTENDS Integers, Sequences, FiniteSets

VARIABLES pc, hint, docstring, func, result

vars == <<pc, hint, docstring, func, result>>

(***************************************************************************)
(* Bounds of the checked input space.                                      *)
(***************************************************************************)
MaxArgs == 2

MaxLines == 3

MaxSchemaLines == 2

MaxParams == 2

MaxChoices == 2

(***************************************************************************)
(* Generic helpers over sequences.                                         *)
(***************************************************************************)
Range(s) == {s[i] : i \in 1..Len(s)}

SeqsUpTo(S, n) == UNION {[1..k -> S] : k \in 0..n}

RECURSIVE SelectSeqBy(_, _)
SelectSeqBy(s, keep) ==
    IF s = <<>> THEN <<>>
    ELSE IF keep[1] THEN <<Head(s)>> \o SelectSeqBy(Tail(s), Tail(keep))
         ELSE SelectSeqBy(Tail(s), Tail(keep))

\* F applied to the value of v: v is evaluated once, where a LET definition is
\* evaluated again at each of its uses
Let(v, F(_)) == CHOOSE r \in {F(x) : x \in {v}} : TRUE

Set(d, k, v) == [x \in (DOMAIN d) \cup {k} |-> IF x = k THEN v ELSE d[x]]

EmptyDict == [x \in {} |-> TRUE]

(***************************************************************************)
(* Exceptions.                                                             *)
(***************************************************************************)
IsError(r) == "error" \in DOMAIN r

ValueError(site) == [error |-> "ValueError", site |-> site]

InvalidType(site, h) == [error |-> "ValueError", site |-> site, hint |-> h]

KeyError(k) == [error |-> "KeyError", key |-> k]

FirstError(rs) ==
    LET bad == {i \in 1..Len(rs) : IsError(rs[i])}
    IN  rs[CHOOSE i \in bad : \A j \in bad : i <= j]

AnyError(rs) == \E i \in 1..Len(rs) : IsError(rs[i])

(***************************************************************************)
(* Type hints.                                                             *)
(***************************************************************************)
NoOrigin == "None"

Base(n) == [origin |-> NoOrigin, args |-> <<>>, name |-> n]

Generic(o, a) == [origin |-> o, args |-> a, name |-> ""]

NoneType == Base("NoneType")

Ellipsis == Base("Ellipsis")

Any == Base("Any")

BASIC_TYPES == {Base("int"), Base("float"), Base("str"), Base("bool"), Any, NoneType, Ellipsis}

Str(s) == [list |-> FALSE, names |-> <<s>>]

List(l) == [list |-> TRUE, names |-> l]

_get_json_schema_type(param_type) ==
    IF param_type = Base("int") THEN [type |-> Str("integer")]
    ELSE IF param_type = Base("float") THEN [type |-> Str("number")]
    ELSE IF param_type = Base("str") THEN [type |-> Str("string")]
    ELSE IF param_type = Base("bool") THEN [type |-> Str("boolean")]
    ELSE IF param_type = Any THEN EmptyDict
    ELSE [type |-> Str("object")]

\* d["type"] of the dict _get_json_schema_type returns: the name, or KeyError
TypeOf(t) ==
    LET d == _get_json_schema_type(t)
    IN  IF "type" \in DOMAIN d THEN [name |-> d["type"].names[1]] ELSE KeyError("type")

\* {"type": [_get_json_schema_type(t)["type"] for t in ts]}, collapsed to a
\* bare string when the list has one element
BasicTypeDict(ts) ==
    LET rs == [i \in 1..Len(ts) |-> TypeOf(ts[i])]
        names == [i \in 1..Len(ts) |-> rs[i].name]
    IN  IF AnyError(rs) THEN FirstError(rs)
        ELSE IF Len(names) = 1 THEN [type |-> Str(names[1])]
        ELSE [type |-> List(names)]

NotIn(ts, excluded) == SelectSeqBy(ts, [i \in 1..Len(ts) |-> ts[i] \notin excluded])

\* {"anyOf": rs}, collapsed to the single fragment when the list has one element
AnyOfDict(rs) ==
    IF AnyError(rs) THEN FirstError(rs)
    ELSE IF Len(rs) = 1 THEN rs[1]
    ELSE [anyOf |-> rs]

\* origin is Union (lines 194-211); parsed is the conversion of each member
\* that is neither NoneType nor the ellipsis
union_schema(args, parsed) ==
    LET allBasic == \A i \in 1..Len(args) : args[i] \in BASIC_TYPES
        return_dict == IF allBasic THEN BasicTypeDict(NotIn(args, {NoneType, Ellipsis}))
                       ELSE AnyOfDict(parsed)
    IN  IF IsError(return_dict) THEN return_dict
        ELSE IF NoneType \in Range(args) THEN Set(return_dict, "nullable", TRUE)
        ELSE return_dict

\* origin is list (lines 212-228); parsed as for union_schema
list_schema(args, parsed) ==
    LET allBasic == \A i \in 1..Len(args) : args[i] \in BASIC_TYPES
        items == IF allBasic THEN BasicTypeDict(NotIn(args, {NoneType}))
                 ELSE AnyOfDict(parsed)
        return_dict == [type |-> Str("array"), items |-> items]
    IN  IF args = <<>> THEN [type |-> Str("array")]
        ELSE IF IsError(items) THEN items
        ELSE IF NoneType \in Range(args) THEN Set(return_dict, "nullable", TRUE)
        ELSE return_dict

tuple_schema_no_length_check(h, prefixItems) ==
    IF h.args = <<>> THEN [type |-> Str("array")]
    ELSE IF Ellipsis \in Range(h.args) THEN ValueError("tuple_ellipsis")
    ELSE IF AnyError(prefixItems) THEN FirstError(prefixItems)
    ELSE [type |-> Str("array"), prefixItems |-> prefixItems]

\* origin is tuple (lines 229-247); prefixItems is the conversion of each
\* element type
tuple_schema(h, prefixItems) ==
    IF h.args = <<>> THEN [type |-> Str("array")]
    ELSE IF Len(h.args) = 1 THEN InvalidType("tuple_length_1", h)
    ELSE IF Ellipsis \in Range(h.args) THEN ValueError("tuple_ellipsis")
    ELSE IF AnyError(prefixItems) THEN FirstError(prefixItems)
    ELSE [type |-> Str("array"), prefixItems |-> prefixItems]

\* origin is dict (lines 248-254); parsed is the conversion of each argument
dict_schema(args, parsed) ==
    IF Len(args) = 2 THEN
        LET additionalProperties == parsed[2]
        IN  IF IsError(additionalProperties) THEN additionalProperties
            ELSE [type |-> Str("object"), additionalProperties |-> additionalProperties]
    ELSE [type |-> Str("object")]

RECURSIVE _parse_type_hint(_)
_parse_type_hint(h) ==
    LET args == h.args
        nonNull == NotIn(args, {NoneType, Ellipsis})
        parsed(ts) == [i \in 1..Len(ts) |-> _parse_type_hint(ts[i])]
    IN  IF h.origin = NoOrigin THEN _get_json_schema_type(h)
        ELSE IF h.origin = "Union" THEN union_schema(args, parsed(nonNull))
        ELSE IF h.origin = "list" THEN list_schema(args, parsed(nonNull))
        ELSE IF h.origin = "tuple" THEN tuple_schema(h, parsed(args))
        ELSE IF h.origin = "dict" THEN dict_schema(args, parsed(args))
        ELSE InvalidType("unparsable_hint", h)

(***************************************************************************)
(* Strings: str methods and the regular expressions of the module.         *)
(***************************************************************************)
None == <<>>

Some(v) == <<v>>

IsSpace(c) == c \in {" ", "\n", "\t"}

\* the position of the first character of s from i on that is not whitespace
RECURSIVE LStripFrom(_, _)
LStripFrom(s, i) == IF i <= Len(s) /\ IsSpace(s[i]) THEN LStripFrom(s, i + 1) ELSE i

lstrip(s) == SubSeq(s, LStripFrom(s, 1), Len(s))

\* the length of s[1..n] without its trailing whitespace
RECURSIVE RStripLen(_, _)
RStripLen(s, n) == IF n > 0 /\ IsSpace(s[n]) THEN RStripLen(s, n - 1) ELSE n

rstrip(s) == SubSeq(s, 1, RStripLen(s, Len(s)))

strip(s) == rstrip(lstrip(s))

\* the literal lit occurs in t at position i
LiteralAt(t, i, lit) == i + Len(lit) - 1 <= Len(t) /\ SubSeq(t, i, i + Len(lit) - 1) = lit

AllSpace(t, i, j) == \A k \in i..j : IsSpace(t[k])

Min(S) == CHOOSE x \in S : \A y \in S : x <= y

\* the position of the first character at or after i that is not whitespace,
\* Len(t) + 1 when there is none: where a greedy \s* started at i stops
RECURSIVE SkipSpace(_, _)
SkipSpace(t, i) == IF i <= Len(t) /\ IsSpace(t[i]) THEN SkipSpace(t, i + 1) ELSE i

\* s.split(sep) for a one-character separator, from position i of s on
RECURSIVE SplitFrom(_, _, _)
SplitFrom(s, i, sep) ==
    LET at == {k \in i..Len(s) : s[k] = sep}
    IN  IF at = {} THEN <<SubSeq(s, i, Len(s))>>
        ELSE <<SubSeq(s, i, Min(at) - 1)>> \o SplitFrom(s, Min(at) + 1, sep)

split(s, sep) == SplitFrom(s, 1, sep)

\* s.split(sep, 1)
split1(s, sep) ==
    LET at == {i \in 1..Len(s) : s[i] = sep}
    IN  IF at = {} THEN <<s>>
        ELSE <<SubSeq(s, 1, Min(at) - 1), SubSeq(s, Min(at) + 1, Len(s))>>

ArgsKw == <<"A", "r", "g", "s", ":">>

ReturnsKw == <<"R", "e", "t", "u", "r", "n", "s", ":">>

RaisesKw == <<"R", "a", "i", "s", "e", "s", ":">>

\* the tail  [\n\s]*(kw1|kw2|...|\Z)  of the three section patterns matches
\* at position i
SectionTailAt(t, i, kws) ==
    LET j == SkipSpace(t, i)
    IN  \E k \in i..j : k = Len(t) + 1 \/ \E kw \in kws : LiteralAt(t, k, kw)

\* the end of the lazy group (.*?) that is tried at position e: the first
\* position from e on where that tail matches
RECURSIVE LazyEnd(_, _, _)
LazyEnd(t, e, kws) == IF SectionTailAt(t, e, kws) THEN e ELSE LazyEnd(t, e + 1, kws)

\* the text the lazy group (.*?) started at position i captures in front of
\* that tail
LazyGroup(t, i, kws) == SubSeq(t, i, LazyEnd(t, i, kws) - 1)

\* description_re.search(docstring).group(1): the pattern is anchored at the
\* start of the text and always matches
description_re(t) == Some(LazyGroup(t, 1, {ArgsKw, ReturnsKw, RaisesKw}))

\* the starts of the matches of  \n\s*<header>\n  in t, header being Args: or
\* Returns:
HeaderStarts(t, header) ==
    {i \in 1..Len(t) :
        /\ t[i] = "\n"
        /\ LiteralAt(t, SkipSpace(t, i + 1), header)
        /\ LiteralAt(t, SkipSpace(t, i + 1) + Len(header), <<"\n">>)}

\* group(1) of the leftmost match of  \n\s*<header>\n\s*(.*?)[\n\s]*(kws|\Z),
\* None when the pattern does not match
SectionGroup(t, header, kws) ==
    LET starts == HeaderStarts(t, header)
        body == SkipSpace(t, SkipSpace(t, Min(starts) + 1) + Len(header) + 1)
    IN  IF starts = {} THEN None ELSE Let(body, LAMBDA i : Some(LazyGroup(t, i, kws)))

args_re(t) == SectionGroup(t, ArgsKw, {ReturnsKw, RaisesKw})

returns_re(t) == SectionGroup(t, ReturnsKw, {RaisesKw})

\* group(1).strip() if the pattern matched, else None
StripGroup(m) == IF m = None THEN None ELSE Some(strip(m[1]))

(***************************************************************************)
(* parse_google_format_docstring.  args_dict, a dict that keeps insertion  *)
(* order, is a sequence of [name, desc] entries with distinct names.       *)
(***************************************************************************)
DictNames(d) == {d[i].name : i \in 1..Len(d)}

DictGet(d, k) == d[CHOOSE i \in 1..Len(d) : d[i].name = k].desc

\* d[k] = v
DictSet(d, k, v) ==
    IF k \in DictNames(d)
    THEN [i \in 1..Len(d) |-> IF d[i].name = k THEN [name |-> k, desc |-> v] ELSE d[i]]
    ELSE Append(d, [name |-> k, desc |-> v])

\* the loop of lines 163-165 over the lines not yet read
RECURSIVE ParseArgLines(_, _)
ParseArgLines(arg_lines, args_dict) ==
    IF arg_lines = <<>> THEN [args_dict |-> args_dict]
    ELSE LET parts == split1(Head(arg_lines), ":")
         IN  IF Len(parts) # 2 THEN ValueError("args_line_unpack")
             ELSE Let(DictSet(args_dict, strip(parts[1]), strip(parts[2])),
                      LAMBDA d : ParseArgLines(Tail(arg_lines), d))

parse_google_format_docstring(t) ==
    LET description == StripGroup(description_re(t))
        returns == StripGroup(returns_re(t))
        sections(parsed) ==
            IF IsError(parsed) THEN parsed
            ELSE [description |-> description, args_dict |-> parsed.args_dict, returns |-> returns]
    IN  Let(StripGroup(args_re(t)), LAMBDA args :
            IF args # None
            THEN Let(split(args[1], "\n"), LAMBDA arg_lines :
                     Let(ParseArgLines(arg_lines, <<>>), LAMBDA parsed : sections(parsed)))
            ELSE sections([args_dict |-> <<>>]))

(***************************************************************************)
(* The (choices: ...) annotation: the pattern of line 121 and json.loads.  *)
(***************************************************************************)
Upper == <<"A", "B", "C", "D", "E", "F", "G", "H", "I", "J", "K", "L", "M",
           "N", "O", "P", "Q", "R", "S", "T", "U", "V", "W", "X", "Y", "Z">>

Lower == <<"a", "b", "c", "d", "e", "f", "g", "h", "i", "j", "k", "l", "m",
           "n", "o", "p", "q", "r", "s", "t", "u", "v", "w", "x", "y", "z">>

lower(c) == IF c \in Range(Upper) THEN Lower[CHOOSE i \in 1..26 : Upper[i] = c] ELSE c

ChoicesOpen == <<"(", "c", "h", "o", "i", "c", "e", "s", ":">>

\* the position of the ")" that ends a match of
\*   \(choices:\s*([^)]+)\)\s*$   (re.IGNORECASE)
\* started at position i: the first ")" after the opening, which at least one
\* character must precede and only whitespace may follow; 0 when no match
\* starts at i
ChoicesClose(t, i) ==
    LET p == i + Len(ChoicesOpen)
        closes == {k \in p..Len(t) : t[k] = ")"}
    IN  IF /\ p - 1 <= Len(t)
           /\ \A k \in 1..Len(ChoicesOpen) : lower(t[i + k - 1]) = ChoicesOpen[k]
           /\ closes # {}
           /\ Min(closes) > p
           /\ AllSpace(t, Min(closes) + 1, Len(t))
        THEN Min(closes) ELSE 0

\* re.search of that pattern in desc: None, or the start of the leftmost
\* match and its group(1).  The greedy \s* in front of the group gives one
\* character back when everything up to the ")" is whitespace.
choices_re(desc) ==
    LET starts == {i \in 1..Len(desc) : ChoicesClose(desc, i) # 0}
        match(i, q, g) ==
            Some([start |-> i, group |-> SubSeq(desc, IF g = q THEN q - 1 ELSE g, q - 1)])
    IN  IF starts = {} THEN None
        ELSE Let(Min(starts), LAMBDA i :
                 Let(ChoicesClose(desc, i), LAMBDA q :
                     match(i, q, SkipSpace(desc, i + Len(ChoicesOpen)))))

JSONDecodeError == ValueError("json_loads")

\* a JSON string that starts at position i of t (no escape sequence occurs in
\* the texts checked): its value and the position after its closing quote
JsonString(t, i) ==
    LET quotes == {k \in i + 1..Len(t) : t[k] = "\""}
        val == SubSeq(t, i + 1, Min(quotes) - 1)
    IN  IF quotes = {} \/ \E k \in 1..Len(val) : val[k] \in {"\n", "\t"} THEN JSONDecodeError
        ELSE [value |-> val, next |-> Min(quotes) + 1]

\* the elements of a JSON array of strings from position i, an element being
\* expected there, up to the closing bracket
RECURSIVE JsonElements(_, _, _)
JsonElements(t, i, acc) ==
    LET after(str, j) ==
            IF j > Len(t) THEN JSONDecodeError
            ELSE IF t[j] = "]" THEN [value |-> Append(acc, str.value), next |-> j + 1]
            ELSE IF t[j] = "," THEN Let(SkipSpace(t, j + 1), LAMBDA k :
                                        JsonElements(t, k, Append(acc, str.value)))
            ELSE JSONDecodeError
    IN  IF i > Len(t) \/ t[i] # "\"" THEN JSONDecodeError
        ELSE Let(JsonString(t, i), LAMBDA str :
                 IF IsError(str) THEN str
                 ELSE Let(SkipSpace(t, str.next), LAMBDA j : after(str, j)))

\* json.loads(t) for a text that holds an array of strings or a string;
\* any other text is not valid JSON over the characters checked
json_loads(t) ==
    LET i == SkipSpace(t, 1)
        j == SkipSpace(t, i + 1)
        v == IF i > Len(t) THEN JSONDecodeError
             ELSE IF t[i] = "\"" THEN JsonString(t, i)
             ELSE IF t[i] # "[" \/ j > Len(t) THEN JSONDecodeError
             ELSE IF t[j] = "]" THEN [value |-> <<>>, next |-> j + 1]
             ELSE JsonElements(t, j, <<>>)
    IN  Let(v, LAMBDA loaded :
            IF IsError(loaded) THEN loaded
            ELSE IF SkipSpace(t, loaded.next) <= Len(t) THEN JSONDecodeError
            ELSE [value |-> loaded.value, isList |-> t[i] = "["])

\* [c.strip() for c in json.loads(text)]: over the strings of a list, or over
\* the characters of a string
enum_of(text) ==
    Let(json_loads(text), LAMBDA loaded :
        IF IsError(loaded) THEN loaded
        ELSE IF loaded.isList
             THEN [enum |-> [k \in 1..Len(loaded.value) |-> strip(loaded.value[k])]]
             ELSE [enum |-> [k \in 1..Len(loaded.value) |-> strip(<<loaded.value[k]>>)]])

(***************************************************************************)
(* get_json_schema.  A callable is a record                                *)
(*   [name, doc, parameters, returns]                                      *)
(* with doc what inspect.getdoc returns (None or Some(text)), parameters   *)
(* the sequence of inspect.signature(func).parameters as records           *)
(* [name, annotation, has_default] (annotation None for                    *)
(* inspect.Parameter.empty) and returns the declared return type (None     *)
(* when there is none).                                                    *)
(***************************************************************************)
ReturnKey == <<"r", "e", "t", "u", "r", "n">>

required_with_default(parameters) ==
    LET keep == [i \in 1..Len(parameters) |-> parameters[i].has_default]
    IN  [i \in 1..Len(SelectSeqBy(parameters, keep)) |-> SelectSeqBy(parameters, keep)[i].name]

\* the list `required` of lines 175-180
required_of(parameters) ==
    LET keep == [i \in 1..Len(parameters) |-> ~parameters[i].has_default]
    IN  [i \in 1..Len(SelectSeqBy(parameters, keep)) |-> SelectSeqBy(parameters, keep)[i].name]

\* get_type_hints(func) as the sequence of its items: the annotated
\* parameters in declaration order, then "return" when a return type is
\* declared
get_type_hints(f) ==
    LET annotated == SelectSeqBy(f.parameters,
                                 [i \in 1..Len(f.parameters) |-> f.parameters[i].annotation # None])
    IN  [i \in 1..Len(annotated) |-> [name |-> annotated[i].name, type |-> annotated[i].annotation[1]]]
        \o (IF f.returns = None THEN <<>> ELSE <<[name |-> ReturnKey, type |-> f.returns[1]]>>)

_convert_type_hints_to_json_schema(f) ==
    LET type_hints == get_type_hints(f)
        unannotated == {i \in 1..Len(f.parameters) : f.parameters[i].annotation = None}
        parsed == [i \in 1..Len(type_hints) |-> _parse_type_hint(type_hints[i].type)]
        properties == [n \in {type_hints[i].name : i \in 1..Len(type_hints)} |->
                          parsed[CHOOSE i \in 1..Len(type_hints) : type_hints[i].name = n]]
        required == required_of(f.parameters)
        schema == [type |-> Str("object"), properties |-> properties]
    IN  IF unannotated # {}
        THEN [error |-> "ValueError", site |-> "missing_type_hint",
              arg |-> f.parameters[Min(unannotated)].name, func |-> f.name]
        ELSE IF AnyError(parsed) THEN FirstError(parsed)
        ELSE IF required # <<>> THEN Set(schema, "required", required)
        ELSE schema

\* lines 120-125 for one argument: its fragment with enum and description
described(fragment, desc) ==
    Let(choices_re(desc), LAMBDA enum_choices :
        IF enum_choices = None THEN Set(fragment, "description", desc)
        ELSE Let(enum_of(enum_choices[1].group), LAMBDA enum :
                 IF IsError(enum) THEN enum
                 ELSE Set(Set(fragment, "enum", enum.enum),
                          "description", strip(SubSeq(desc, 1, enum_choices[1].start - 1)))))

RECURSIVE describe_skipping_undescribed(_, _, _, _)
describe_skipping_undescribed(names, properties, param_descriptions, fname) ==
    IF names = <<>> THEN [properties |-> properties]
    ELSE IF Head(names) \notin DictNames(param_descriptions)
    THEN describe_skipping_undescribed(Tail(names), properties, param_descriptions, fname)
    ELSE Let(described(properties[Head(names)], DictGet(param_descriptions, Head(names))),
             LAMBDA new :
                 IF IsError(new) THEN new
                 ELSE Let(Set(properties, Head(names), new), LAMBDA p :
                          describe_skipping_undescribed(Tail(names), p, param_descriptions, fname)))

\* the loop of lines 115-125 over the keys of properties, names being the
\* keys not yet visited
RECURSIVE describe(_, _, _, _)
describe(names, properties, param_descriptions, fname) ==
    IF names = <<>> THEN [properties |-> properties]
    ELSE IF Head(names) \notin DictNames(param_descriptions)
    THEN [error |-> "ValueError", site |-> "no_description", arg |-> Head(names), func |-> fname]
    ELSE Let(described(properties[Head(names)], DictGet(param_descriptions, Head(names))),
             LAMBDA new :
                 IF IsError(new) THEN new
                 ELSE Let(Set(properties, Head(names), new), LAMBDA p :
                          describe(Tail(names), p, param_descriptions, fname)))

return_dict_always_described(properties, return_doc) ==
    IF ReturnKey \notin DOMAIN properties THEN None
    ELSE Some(Set(properties[ReturnKey], "description",
                  IF return_doc # None THEN return_doc[1] ELSE <<>>))

\* lines 112-114: the fragment popped from properties under "return", with
\* the Returns block as its description when there is one
return_dict_of(properties, return_doc) ==
    IF ReturnKey \notin DOMAIN properties THEN None
    ELSE IF return_doc # None THEN Some(Set(properties[ReturnKey], "description", return_doc[1]))
    ELSE Some(properties[ReturnKey])

\* lines 111-130, once the docstring is parsed
assemble(f, sections) ==
    LET keys(hints) == SelectSeqBy([i \in 1..Len(hints) |-> hints[i].name],
                                   [i \in 1..Len(hints) |-> hints[i].name # ReturnKey])
        popped(json_schema) ==
            [n \in DOMAIN json_schema.properties \ {ReturnKey} |-> json_schema.properties[n]]
        output(json_schema, properties) ==
            [name |-> f.name, description |-> sections.description[1],
             parameters |-> Set(json_schema, "properties", properties.properties)]
    IN  Let(_convert_type_hints_to_json_schema(f), LAMBDA json_schema :
            IF IsError(json_schema) THEN json_schema
            ELSE Let(return_dict_of(json_schema.properties, sections.returns), LAMBDA return_dict :
                 Let(describe(keys(get_type_hints(f)), popped(json_schema), sections.args_dict,
                              f.name),
                     LAMBDA properties :
                         IF IsError(properties) THEN properties
                         ELSE IF return_dict # None
                         THEN Set(output(json_schema, properties), "return", return_dict[1])
                         ELSE output(json_schema, properties))))

get_json_schema(f) ==
    IF f.doc = None \/ f.doc[1] = <<>>
    THEN [error |-> "ValueError", site |-> "no_docstring", func |-> f.name]
    ELSE Let(strip(f.doc[1]), LAMBDA doc :
             Let(parse_google_format_docstring(doc), LAMBDA sections :
                 IF IsError(sections) THEN sections ELSE assemble(f, sections)))

(***************************************************************************)
(* The type hints the converter is checked on.                             *)
(***************************************************************************)
BaseNames == {"int", "float", "str", "bool", "Any", "NoneType", "Ellipsis", "MyClass"}

Origins == {"Union", "list", "tuple", "dict", "set"}

BaseHints == {Base(n) : n \in BaseNames}

\* typing.Union keeps two or more distinct members, none of them a Union or
\* the ellipsis
WellFormed(o, a) ==
    o = "Union" =>
        /\ Len(a) >= 2
        /\ \A i, j \in 1..Len(a) : i # j => a[i] # a[j]
        /\ \A i \in 1..Len(a) : a[i].origin # "Union" /\ a[i] # Ellipsis

GenericsOver(S, n) == {Generic(o, a) : o \in Origins, a \in SeqsUpTo(S, n)}

InnerNames == {"int", "Any", "NoneType"}

\* the generic hints that occur as arguments: no argument or one argument,
\* two members for a Union
InnerHints ==
    {g \in GenericsOver({Base(n) : n \in InnerNames}, 2) :
        /\ WellFormed(g.origin, g.args)
        /\ g.origin # "Union" => Len(g.args) <= 1}

Hints ==
    BaseHints \cup
    {g \in GenericsOver(BaseHints \cup InnerHints, MaxArgs) : WellFormed(g.origin, g.args)}

(***************************************************************************)
(* The docstrings parse_google_format_docstring is checked on: a main      *)
(* description, an Args block of up to MaxLines lines and a Returns block. *)
(***************************************************************************)
RECURSIVE Join(_, _)
Join(texts, sep) ==
    IF texts = <<>> THEN <<>>
    ELSE IF Len(texts) = 1 THEN texts[1]
    ELSE texts[1] \o sep \o Join(Tail(texts), sep)

Indent == <<" ", " ", " ", " ">>

RenderDoc(main, lines, returns) ==
    main
    \o (IF lines = <<>> THEN <<>>
        ELSE <<"\n", "\n">> \o ArgsKw \o <<"\n">>
             \o Join([i \in 1..Len(lines) |-> Indent \o lines[i]], <<"\n">>))
    \o (IF returns = None THEN <<>>
        ELSE <<"\n", "\n">> \o ReturnsKw \o <<"\n">> \o Indent \o returns[1])

Mains == {<<>>, <<"m">>}

ReturnBlocks == {None, Some(<<"r">>)}

\* "x: d", "y: d:e", a blank line, a line with no colon, "x :e"
ArgLines ==
    {<<"x", ":", " ", "d">>, <<"y", ":", " ", "d", ":", "e">>, <<>>, <<"z", "z">>,
     <<"x", " ", ":", "e">>}

Docstrings ==
    {RenderDoc(main, lines, returns) :
        main \in Mains, lines \in SeqsUpTo(ArgLines, MaxLines), returns \in ReturnBlocks}

(***************************************************************************)
(* The callables get_json_schema is checked on.                            *)
(***************************************************************************)
ParamNames == {<<"x">>, <<"y">>, <<"z">>}

\* an int parameter without and with a default, a parameter with no type
\* hint, and one whose hint is a tuple of length 1
ParamKinds ==
    {[annotation |-> Some(Base("int")), has_default |-> FALSE],
     [annotation |-> Some(Base("int")), has_default |-> TRUE],
     [annotation |-> None, has_default |-> FALSE],
     [annotation |-> Some(Generic("tuple", <<Base("int")>>)), has_default |-> FALSE]}

Param(n, k) == [name |-> n, annotation |-> k.annotation, has_default |-> k.has_default]

\* the parameter names of a signature, in alphabetical order
RECURSIVE Ascending(_)
Ascending(ns) ==
    Len(ns) <= 1 \/ (ns[1][1] \in {"x", "y"} /\ ns[2][1] \in {"y", "z"} /\ ns[1] # ns[2]
                     /\ Ascending(Tail(ns)))

DistinctNames == {ns \in SeqsUpTo(ParamNames, MaxParams) : Ascending(ns)}

Signatures ==
    UNION {{[i \in 1..Len(names) |-> Param(names[i], kinds[i])] :
               kinds \in [1..Len(names) -> ParamKinds]} : names \in DistinctNames}

ReturnTypes == {None, Some(Base("int")), Some(Any)}

\* "x: d", "y: e", "z: d"
SchemaLines == {<<"x", ":", " ", "d">>, <<"y", ":", " ", "e">>, <<"z", ":", " ", "d">>}

SchemaDocs ==
    {None} \cup
    {Some(RenderDoc(main, lines, returns)) :
        main \in Mains, lines \in SeqsUpTo(SchemaLines, MaxSchemaLines), returns \in ReturnBlocks}

Funcs ==
    {[name |-> "f", doc |-> doc, parameters |-> sig, returns |-> ret] :
        doc \in SchemaDocs,
        sig \in Signatures,
        ret \in ReturnTypes}

(***************************************************************************)
(* Callables with one str parameter x whose description carries a          *)
(* (choices: ...) annotation.                                              *)
(***************************************************************************)
\* a, " b " and "c)"
ChoiceValues == {<<"a">>, <<" ", "b", " ">>, <<"c", ")">>}

ChoiceWords ==
    {<<"c", "h", "o", "i", "c", "e", "s">>, <<"C", "H", "O", "I", "C", "E", "S">>,
     <<"C", "h", "o", "i", "c", "e", "s">>}

Blanks == {<<>>, <<" ">>}

RenderArray(values) ==
    <<"[">> \o Join([i \in 1..Len(values) |-> <<"\"">> \o values[i] \o <<"\"">>], <<",", " ">>)
    \o <<"]">>

\* text, gap, "(" word ":" space array ")" tail
RenderDesc(text, gap, word, space, values, tail) ==
    text \o gap \o <<"(">> \o word \o <<":">> \o space \o RenderArray(values) \o <<")">> \o tail

\* "d", and "d (choices: ["a"]) e" whose annotation is not at the end
PlainDescs ==
    {<<"d">>,
     <<"d", " ">> \o RenderDesc(<<>>, <<>>, <<"c", "h", "o", "i", "c", "e", "s">>, <<" ">>,
                                <<<<"a">>>>, <<" ", "e">>)}

ChoiceFunc(desc) ==
    [name |-> "f",
     doc |-> Some(RenderDoc(<<"m">>, <<<<"x", ":", " ">> \o desc>>, None)),
     parameters |-> <<[name |-> <<"x">>, annotation |-> Some(Base("str")), has_default |-> FALSE]>>,
     returns |-> None]

ChoiceFuncs ==
    {ChoiceFunc(desc) : desc \in PlainDescs} \cup
    {ChoiceFunc(RenderDesc(text, gap, word, space, values, tail)) :
        text \in {<<>>, <<"d">>}, gap \in Blanks, word \in ChoiceWords, space \in Blanks,
        values \in SeqsUpTo(ChoiceValues, MaxChoices), tail \in Blanks}

NoValue == EmptyDict

(***************************************************************************)
(* Specification of the type converter: _parse_type_hint on one hint.      *)
(***************************************************************************)
InitHint ==
    /\ pc = "start"
    /\ hint \in Hints
    /\ docstring = <<>>
    /\ func = NoValue
    /\ result = NoValue

ParseTypeHint ==
    /\ pc = "start"
    /\ pc' = "done"
    /\ result' = _parse_type_hint(hint)
    /\ UNCHANGED <<hint, docstring, func>>

NextHint == ParseTypeHint

SpecHint == InitHint /\ [][NextHint]_vars

(***************************************************************************)
(* Specification of the docstring parser.                                  *)
(***************************************************************************)
InitDoc ==
    /\ pc = "start"
    /\ hint = NoValue
    /\ docstring \in Docstrings
    /\ func = NoValue
    /\ result = NoValue

ParseDocstring ==
    /\ pc = "start"
    /\ pc' = "done"
    /\ result' = parse_google_format_docstring(docstring)
    /\ UNCHANGED <<hint, docstring, func>>

NextDoc == ParseDocstring

SpecDoc == InitDoc /\ [][NextDoc]_vars

(***************************************************************************)
(* Specification of the assembler: get_json_schema on one callable.        *)
(***************************************************************************)
InitSchema ==
    /\ pc = "start"
    /\ hint = NoValue
    /\ docstring = <<>>
    /\ func \in Funcs \cup ChoiceFuncs
    /\ result = NoValue

GetJsonSchema ==
    /\ pc = "start"
    /\ pc' = "done"
    /\ result' = get_json_schema(func)
    /\ UNCHANGED <<hint, docstring, func>>

NextSchema == GetJsonSchema

SpecSchema == InitSchema /\ [][NextSchema]_vars

(***************************************************************************)
(* Properties of the type converter.                                       *)
(***************************************************************************)
Primitives == {Base("int"), Base("float"), Base("str"), Base("bool"), Any, NoneType}

\* the fixed mapping of primitive descriptors the specification gives
ClaimedPrimitive(p) ==
    IF p = Base("int") THEN [type |-> Str("integer")]
    ELSE IF p = Base("float") THEN [type |-> Str("number")]
    ELSE IF p = Base("str") THEN [type |-> Str("string")]
    ELSE IF p = Base("bool") THEN [type |-> Str("boolean")]
    ELSE IF p = NoneType THEN [type |-> Str("null")]
    ELSE EmptyDict

\* the mapped names of the members that are not null, in member order (any
\* has no mapped name)
RECURSIVE ClaimedNames(_)
ClaimedNames(ts) ==
    IF ts = <<>> THEN <<>>
    ELSE IF Head(ts) = NoneType \/ "type" \notin DOMAIN ClaimedPrimitive(Head(ts))
         THEN ClaimedNames(Tail(ts))
         ELSE <<ClaimedPrimitive(Head(ts)).type.names[1]>> \o ClaimedNames(Tail(ts))

Collapsed(names) == IF Len(names) = 1 THEN Str(names[1]) ELSE List(names)

NullableIff(r, args) ==
    /\ "nullable" \in DOMAIN r <=> NoneType \in Range(args)
    /\ "nullable" \in DOMAIN r => r["nullable"] = TRUE

\* C8: every primitive descriptor converts to its fixed fragment: integer,
\* number, string, boolean, null map to {type: <that name>} and any maps to {}.
C8_PrimitiveMapping ==
    (pc = "done" /\ hint \in Primitives) => result = ClaimedPrimitive(hint)

\* C1: a Union whose members are all primitives converts to a fragment whose
\* type is the list of the mapped names of its non-null members in member
\* order (a bare string when one remains), with nullable = true exactly when
\* None is a member; this includes unions that contain Any.
C1_UnionOfPrimitives ==
    (pc = "done" /\ hint.origin = "Union" /\ Range(hint.args) \subseteq Primitives) =>
        /\ ~IsError(result)
        /\ "type" \in DOMAIN result
        /\ NullableIff(result, hint.args)
        /\ Any \notin Range(hint.args) => result["type"] = Collapsed(ClaimedNames(hint.args))

\* a descriptor outside the closed vocabulary: a user-defined class, or a
\* generic whose origin is none of Union, list, tuple, dict
Unsupported(h) == h = Base("MyClass") \/ h.origin \notin {NoOrigin, "Union", "list", "tuple", "dict"}

\* C2: a descriptor outside the closed vocabulary, at the top level or as a
\* member of a union, an element of a list or tuple, or the value type of a
\* map, makes the conversion fail; no fragment is returned for it.
C2_UnsupportedFails ==
    (/\ pc = "done"
     /\ \/ Unsupported(hint)
        \/ hint.origin \in {"Union", "list", "tuple"} /\ \E i \in 1..Len(hint.args) : Unsupported(hint.args[i])
        \/ hint.origin = "dict" /\ Len(hint.args) = 2 /\ Unsupported(hint.args[2]))
    => IsError(result)

\* C3: a tuple hint with two or more element types and no ellipsis, each of
\* which converts, yields {type: "array", prefixItems: [...]} with one entry
\* per element type, entry i being the conversion of element type i; a tuple
\* hint with exactly one element type, or with the ellipsis among its element
\* types, fails with the invalid-type ValueError and yields no fragment.
C3_Tuple ==
    (pc = "done" /\ hint.origin = "tuple") =>
        LET args == hint.args
            converted == [i \in 1..Len(args) |-> _parse_type_hint(args[i])]
        IN  /\ (Len(args) >= 2 /\ Ellipsis \notin Range(args) /\ ~AnyError(converted)) =>
                   /\ DOMAIN result = {"type", "prefixItems"}
                   /\ result["type"] = Str("array")
                   /\ Len(result["prefixItems"]) = Len(args)
                   /\ \A i \in 1..Len(args) : result["prefixItems"][i] = converted[i]
            /\ (Len(args) = 1 \/ Ellipsis \in Range(args)) =>
                   /\ IsError(result)
                   /\ result["error"] = "ValueError"
                   /\ result["site"] \in {"tuple_length_1", "tuple_ellipsis"}

C3_Witness ==
    /\ pc = "done"
    /\ hint.origin = "tuple"
    /\ Len(hint.args) = 2
    /\ hint.args[2].origin = "list"
    /\ ~IsError(result)
    /\ Len(result["prefixItems"]) = 2

\* the descriptors of the closed vocabulary
RECURSIVE Supported(_)
Supported(h) ==
    IF h.origin = NoOrigin THEN h \in Primitives
    ELSE /\ \A i \in 1..Len(h.args) : Supported(h.args[i])
         /\ h.origin \in {"Union", "list", "tuple", "dict"}
         /\ h.origin = "tuple" => Len(h.args) # 1

\* C10: a list hint with no element types converts to {type: "array"}; with
\* element types it converts to {type: "array", items: F}, F built from the
\* non-null element types by the rule for Union (all primitives: the type
\* list of mapped names, collapsed when one remains; otherwise anyOf of the
\* converted members, collapsed when one remains), with nullable = true
\* exactly when a null marker is an element type; for every supported element
\* type, any included.
C10_List ==
    (pc = "done" /\ hint.origin = "list" /\ Supported(hint)) =>
        LET args == hint.args
            nonNull == NotIn(args, {NoneType})
            F == IF Range(nonNull) \subseteq Primitives
                 THEN [type |-> Collapsed(ClaimedNames(nonNull))]
                 ELSE AnyOfDict([i \in 1..Len(nonNull) |-> _parse_type_hint(nonNull[i])])
        IN  IF args = <<>> THEN result = [type |-> Str("array")]
            ELSE /\ ~IsError(result)
                 /\ DOMAIN result \ {"nullable"} = {"type", "items"}
                 /\ result["type"] = Str("array")
                 /\ NullableIff(result, args)
                 /\ Any \notin Range(args) => result["items"] = F

(***************************************************************************)
(* Properties of the docstring parser.                                     *)
(***************************************************************************)
IsBlank(line) == \A k \in 1..Len(line) : IsSpace(line[k])

HasColon(line) == \E k \in 1..Len(line) : line[k] = ":"

\* one entry per non-blank line, in order of appearance: the trimmed text
\* before the first colon mapped to the trimmed text after it
RECURSIVE ClaimedEntries(_, _)
ClaimedEntries(lines, entries) ==
    IF lines = <<>> THEN entries
    ELSE IF IsBlank(Head(lines)) THEN ClaimedEntries(Tail(lines), entries)
    ELSE LET colon == Min({k \in 1..Len(Head(lines)) : Head(lines)[k] = ":"})
         IN  ClaimedEntries(Tail(lines),
                            DictSet(entries, strip(SubSeq(Head(lines), 1, colon - 1)),
                                    strip(SubSeq(Head(lines), colon + 1, Len(Head(lines))))))

\* C9: the Args block is read line by line; blank lines between its first and
\* last line yield no entry and no error, every non-blank line yields the entry (text before its first colon,
\* text after it), both trimmed, in order of appearance; a non-blank line
\* with no colon makes parsing fail.
C9_ArgsBlock ==
    pc = "done" =>
        \A main \in Mains, lines \in SeqsUpTo(ArgLines, MaxLines), returns \in ReturnBlocks :
            (/\ lines # <<>>
             /\ ~IsBlank(lines[1])
             /\ ~IsBlank(lines[Len(lines)])
             /\ docstring = RenderDoc(main, lines, returns)) =>
                IF \A i \in 1..Len(lines) : IsBlank(lines[i]) \/ HasColon(lines[i])
                THEN ~IsError(result) /\ result["args_dict"] = ClaimedEntries(lines, <<>>)
                ELSE IsError(result)

(***************************************************************************)
(* Properties of get_json_schema.                                          *)
(***************************************************************************)
\* the names of the declared parameters that have no default, in order
RECURSIVE WithoutDefault(_)
WithoutDefault(parameters) ==
    IF parameters = <<>> THEN <<>>
    ELSE IF Head(parameters).has_default THEN WithoutDefault(Tail(parameters))
    ELSE <<Head(parameters).name>> \o WithoutDefault(Tail(parameters))

\* C4: in every schema get_json_schema returns, parameters.required is the
\* sequence of the declared parameter names without a default, in declaration
\* order, and the key is absent exactly when every parameter has a default.
C4_Required ==
    (pc = "done" /\ func \in Funcs /\ ~IsError(result)) =>
        LET claimed == WithoutDefault(func.parameters)
        IN  /\ "required" \notin DOMAIN result["parameters"] <=> claimed = <<>>
            /\ claimed # <<>> => result["parameters"]["required"] = claimed

C4_Witness ==
    /\ pc = "done"
    /\ func \in Funcs
    /\ ~IsError(result)
    /\ Len(func.parameters) = 2
    /\ func.parameters[1].has_default
    /\ ~func.parameters[2].has_default
    /\ result["parameters"]["required"] = <<func.parameters[2].name>>

\* the names that have an entry in the parsed Args block of f's docstring
DescribedNames(f) ==
    IF f.doc = None \/ f.doc[1] = <<>> THEN {}
    ELSE Let(parse_google_format_docstring(strip(f.doc[1])), LAMBDA sections :
             IF IsError(sections) THEN {} ELSE DictNames(sections.args_dict))

\* the parameters of f that have a type hint and a name not among names
UndescribedIn(f, names) ==
    {i \in 1..Len(f.parameters) :
        f.parameters[i].annotation # None /\ f.parameters[i].name \notin names}

\* the parameters of f that have a type hint and no entry in the Args block
Undescribed(f) == Let(DescribedNames(f), LAMBDA names : UndescribedIn(f, names))

\* C6: when a declared parameter has a type hint and no entry in the parsed
\* Args block, get_json_schema returns no schema: it fails, and once the
\* docstring is parsed and the type hints are converted the failure is the
\* missing-description ValueError naming the first such parameter and the
\* callable; conversely every fragment under properties of a returned schema
\* has a description.
C6_MissingDescription ==
    (pc = "done" /\ func \in Funcs) =>
        /\ Let(Undescribed(func), LAMBDA undescribed :
               undescribed # {} =>
                  /\ IsError(result)
                  /\ (/\ func.doc # None
                      /\ func.doc[1] # <<>>
                      /\ ~IsError(parse_google_format_docstring(strip(func.doc[1])))
                      /\ ~IsError(_convert_type_hints_to_json_schema(func))) =>
                         /\ result["site"] = "no_description"
                         /\ result["arg"] = func.parameters[Min(undescribed)].name
                         /\ result["func"] = func.name)
        /\ ~IsError(result) =>
              \A n \in DOMAIN result["parameters"]["properties"] :
                  "description" \in DOMAIN result["parameters"]["properties"][n]

C6_Witness ==
    /\ pc = "done"
    /\ func \in Funcs
    /\ Len(func.parameters) = 2
    /\ func.parameters[1].name \in DescribedNames(func)
    /\ Undescribed(func) = {2}
    /\ IsError(result)
    /\ result["site"] = "no_description"
    /\ result["arg"] = func.parameters[2].name

\* C7: in every schema returned, "return" is not a key of
\* parameters.properties and no description of it is required in the Args
\* block; a declared return type has its converted fragment under the
\* top-level key "return", with the parsed Returns block as its description
\* exactly when a Returns block was parsed; with no declared return type the
\* top-level key "return" is absent.
C7_Return ==
    (pc = "done" /\ func \in Funcs) =>
        /\ (IsError(result) /\ result["site"] = "no_description") => result["arg"] # ReturnKey
        /\ ~IsError(result) =>
              Let(parse_google_format_docstring(strip(func.doc[1])), LAMBDA sections :
                  LET returns == sections.returns
                      fragment == result["return"]
                  IN  /\ ReturnKey \notin DOMAIN result["parameters"]["properties"]
                      /\ ReturnKey \notin DictNames(sections.args_dict)
                      /\ func.returns = None <=> "return" \notin DOMAIN result
                      /\ func.returns # None =>
                            /\ [k \in DOMAIN fragment \ {"description"} |-> fragment[k]]
                                  = _parse_type_hint(func.returns[1])
                            /\ "description" \in DOMAIN fragment <=> returns # None
                            /\ returns # None => fragment["description"] = returns[1])

C7_Witness ==
    /\ pc = "done"
    /\ func \in Funcs
    /\ ~IsError(result)
    /\ func.returns = Some(Any)
    /\ Len(func.parameters) = 1
    /\ result["return"] = [description |-> <<"r">>]

\* C5: a description that ends with (choices: <JSON array of strings>), the
\* word in any letter case, with optional whitespace before and after the
\* annotation and any string values, gives the parameter's fragment an enum
\* of the array's strings in order, each trimmed, and the description with
\* the annotation removed, trimmed; a description without a trailing
\* annotation gives no enum and an unchanged description.
C5_Choices ==
    (pc = "done" /\ func \in ChoiceFuncs) =>
        LET fragment == result["parameters"]["properties"][<<"x">>]
        IN  /\ ~IsError(result)
            /\ \A desc \in PlainDescs :
                  func = ChoiceFunc(desc) =>
                      "enum" \notin DOMAIN fragment /\ fragment["description"] = desc
            /\ \A text \in {<<>>, <<"d">>}, gap \in Blanks, word \in ChoiceWords, space \in Blanks,
                  values \in SeqsUpTo(ChoiceValues, MaxChoices), tail \in Blanks :
                  func = ChoiceFunc(RenderDesc(text, gap, word, space, values, tail)) =>
                      /\ "enum" \in DOMAIN fragment
                      /\ fragment["enum"] = [i \in 1..Len(values) |-> strip(values[i])]
                      /\ fragment["description"] = text

====
